---- MODULE Spec2Model ----
(***************************************************************************)
(* Model of the data cleaning pipeline of dataops-governance-lab:          *)
(*   notebooks/pipeline_ingestao.py    (ingestion:  datasets/ -> data/)    *)
(*   notebooks/correcao_automatica.py  (correction: data/ -> data_corrigida/) *)
(* A table (DataFrame) is a sequence of rows, a row a record of cells.     *)
(***************************************************************************)
EXTENDS Integers, Sequences, FiniteSets, TLC

(***************************************************************************)
(* Bounds of the model.                                                    *)
(***************************************************************************)
MaxTotalRows == 4
MaxPasses == 2

(***************************************************************************)
(* Cells.  A text cell is a string, the missing value (NaN/None) is the    *)
(* reserved token NULL.  A date cell is a record: unparsed text denoting   *)
(* day d (d = 0: text that is no date), a parsed timestamp of day d, NaT,  *)
(* or the missing value of a raw column.                                   *)
(***************************************************************************)
NULL == "<NaN>"

Txt(d) == [k |-> "txt", d |-> d]
Ts(d) == [k |-> "ts", d |-> d]
NaT == [k |-> "nat", d |-> 0]
NaD == [k |-> "nan", d |-> 0]
Lixo == Txt(0)

notna(s) == s # NULL

\* Series.astype(str): the missing value becomes the text "nan".
astype_str(s) == IF s = NULL THEN "nan" ELSE s

\* str.normalize('NFKD').str.encode('ascii', errors='ignore').str.decode('utf-8')
ascii_fold(s) ==
    CASE s = "José" -> "Jose"
      [] s = "São Paulo" -> "Sao Paulo"
      [] s = "Eletrônicos" -> "Eletronicos"
      [] OTHER -> s

normalize_text(s) == ascii_fold(astype_str(s))

\* Series.str.contains(r"[^@]+@[^@]+\.[^@]+"): a search, so surrounding text is allowed.
email_contains(s) == s \in {"a@b.co", " A@B.co ", "x@y.com"}

email_ok(s) == notna(s) /\ email_contains(s)

\* A variant that parses text only and coerces everything else to NaT.
to_datetime_text_only(c) ==
    IF c.k = "txt" /\ c.d > 0 THEN Ts(c.d) ELSE NaT

\* pd.to_datetime(col, errors="coerce")
to_datetime(c) ==
    CASE c.k = "txt" -> (IF c.d > 0 THEN Ts(c.d) ELSE NaT)
      [] c.k = "ts" -> c
      [] OTHER -> NaT

date_notna(c) == c.k \notin {"nat", "nan"}

\* Series.astype(bool): every non-empty object, NaN included, is truthy.
astype_bool(s) == IF s = "False" THEN "False" ELSE "True"

\* astype(str).str.replace(r"\D", "").str.pad(width=11, side="left", fillchar="0")
only_digits(s) ==
    CASE s = "(11)99999-0000" -> "11999990000"
      [] s = "1234" -> "1234"
      [] s = "nan" -> ""
      [] OTHER -> s

pad11(s) ==
    CASE s = "1234" -> "00000001234"
      [] s = "" -> "00000000000"
      [] OTHER -> s

padronizar_telefone(s) == pad11(only_digits(astype_str(s)))

\* Series.str.lower().str.strip(): the missing value stays missing.
padronizar_email(s) ==
    CASE s = " A@B.co " -> "a@b.co"
      [] OTHER -> s

\* Series.fillna(v)
fillna(s, v) == IF s = NULL THEN v ELSE s

(***************************************************************************)
(* Tables.                                                                 *)
(***************************************************************************)
Entities == {"clientes", "clientes_lab", "produtos", "vendas", "logistica"}

\* The value of column col (a key column) in row r.
Col(r, col) ==
    CASE col = "id_cliente" -> r.id_cliente
      [] col = "id_produto" -> r.id_produto
      [] col = "id_venda" -> r.id_venda
      [] col = "id_entrega" -> r.id_entrega

\* set(df[col])
ColSet(t, col) == {Col(t[i], col) : i \in 1..Len(t)}

\* df[mask]: the rows satisfying P, in order.
Filter(t, P(_)) == SelectSeq(t, P)

\* df[col] = f(df[col]) for every row.
MapRows(t, F(_)) == [i \in 1..Len(t) |-> F(t[i])]

\* A variant that removes nothing.
drop_duplicates_none(t, col) == t

\* df.drop_duplicates(subset=col, keep='first')
drop_duplicates_first(t, col) ==
    LET keep(i) == \A j \in 1..(i - 1) : Col(t[j], col) # Col(t[i], col)
        F[i \in 0..Len(t)] ==
            IF i = 0 THEN <<>>
            ELSE IF keep(i) THEN Append(F[i - 1], t[i]) ELSE F[i - 1]
    IN F[Len(t)]

\* df.drop_duplicates(subset=col, keep='last')
drop_duplicates_last(t, col) ==
    LET keep(i) == \A j \in (i + 1)..Len(t) : Col(t[j], col) # Col(t[i], col)
        F[i \in 0..Len(t)] ==
            IF i = 0 THEN <<>>
            ELSE IF keep(i) THEN Append(F[i - 1], t[i]) ELSE F[i - 1]
    IN F[Len(t)]

\* df.sort_values(by=col): the default kind is quicksort, which is not
\* stable, so rows with equal keys come out in any relative order.
sort_values(t, col) ==
    LET n == Len(t)
        perms == {p \in [1..n -> 1..n] : \A i, j \in 1..n : i # j => p[i] # p[j]}
        sorted(p) == \A i, j \in 1..n : i < j => Col(t[p[i]], col) <= Col(t[p[j]], col)
    IN {[i \in 1..n |-> t[p[i]]] : p \in {q \in perms : sorted(q)}}

(***************************************************************************)
(* pipeline_ingestao.py: the per-entity cleaning functions.                *)
(***************************************************************************)
clean_clientes(df) ==
    LET enc(r) == [r EXCEPT !.nome = normalize_text(r.nome),
                            !.cidade = normalize_text(r.cidade)]
        d1 == MapRows(df, enc)
        d2 == drop_duplicates_first(d1, "id_cliente")
        okEmail(r) == email_ok(r.email)
        d3 == Filter(d2, okEmail)
        okNomeTel(r) == notna(r.nome) /\ notna(r.telefone)
        d4 == Filter(d3, okNomeTel)
        dts(r) == [r EXCEPT !.data_nascimento = to_datetime(r.data_nascimento),
                            !.data_cadastro = to_datetime(r.data_cadastro)]
        d5 == MapRows(d4, dts)
        okDts(r) == date_notna(r.data_nascimento) /\ date_notna(r.data_cadastro)
    IN Filter(d5, okDts)

clean_clientes_lab(df) ==
    LET enc(r) == [r EXCEPT !.nome = normalize_text(r.nome)]
        d1 == MapRows(df, enc)
        d2 == drop_duplicates_first(d1, "id_cliente")
        okEmail(r) == email_ok(r.email)
        d3 == Filter(d2, okEmail)
        okIdade(r) == r.idade >= 0 /\ r.idade < 120
        d4 == Filter(d3, okIdade)
        okStatus(r) == notna(r.status)
        d5 == Filter(d4, okStatus)
        dts(r) == [r EXCEPT !.data_cadastro = to_datetime(r.data_cadastro)]
        d6 == MapRows(d5, dts)
        okDts(r) == date_notna(r.data_cadastro)
    IN Filter(d6, okDts)

clean_produtos(df) ==
    LET enc(r) == [r EXCEPT !.nome_produto = normalize_text(r.nome_produto),
                            !.categoria = normalize_text(r.categoria)]
        d1 == MapRows(df, enc)
        d2 == drop_duplicates_first(d1, "id_produto")
        okPreco(r) == r.preco >= 0
        d3 == Filter(d2, okPreco)
        okEstoque(r) == r.estoque >= 0
        d4 == Filter(d3, okEstoque)
        dts(r) == [r EXCEPT !.data_criacao = to_datetime(r.data_criacao)]
        d5 == MapRows(d4, dts)
        okDts(r) == date_notna(r.data_criacao)
        d6 == Filter(d5, okDts)
        bool(r) == [r EXCEPT !.ativo = astype_bool(r.ativo)]
    IN MapRows(d6, bool)

\* A variant that filters before it removes duplicates.
clean_vendas_filtra_antes(df, clientes_ids, produtos_ids) ==
    LET ok(r) == /\ r.id_cliente \in clientes_ids /\ r.id_produto \in produtos_ids
                 /\ r.quantidade > 0 /\ r.valor_unitario >= 0 /\ r.valor_total >= 0
        d1 == Filter(df, ok)
        dts(r) == [r EXCEPT !.data_venda = to_datetime(r.data_venda)]
        d2 == MapRows(d1, dts)
        okDts(r) == date_notna(r.data_venda)
        d3 == Filter(d2, okDts)
    IN drop_duplicates_first(d3, "id_venda")

\* A variant whose quantity filter accepts zero.
clean_vendas_qtd_zero(df, clientes_ids, produtos_ids) ==
    LET d1 == drop_duplicates_first(df, "id_venda")
        ok(r) == /\ r.id_cliente \in clientes_ids /\ r.id_produto \in produtos_ids
                 /\ r.quantidade >= 0 /\ r.valor_unitario >= 0 /\ r.valor_total >= 0
        d2 == Filter(d1, ok)
        dts(r) == [r EXCEPT !.data_venda = to_datetime(r.data_venda)]
        d3 == MapRows(d2, dts)
        okDts(r) == date_notna(r.data_venda)
    IN Filter(d3, okDts)

clean_vendas(df, clientes_ids, produtos_ids) ==
    LET d1 == drop_duplicates_first(df, "id_venda")
        okCli(r) == r.id_cliente \in clientes_ids
        d2 == Filter(d1, okCli)
        okProd(r) == r.id_produto \in produtos_ids
        d3 == Filter(d2, okProd)
        okQtd(r) == r.quantidade > 0
        d4 == Filter(d3, okQtd)
        okUnit(r) == r.valor_unitario >= 0
        d5 == Filter(d4, okUnit)
        okTotal(r) == r.valor_total >= 0
        d6 == Filter(d5, okTotal)
        dts(r) == [r EXCEPT !.data_venda = to_datetime(r.data_venda)]
        d7 == MapRows(d6, dts)
        okDts(r) == date_notna(r.data_venda)
    IN Filter(d7, okDts)

clean_logistica(df, vendas_ids) ==
    LET d1 == drop_duplicates_first(df, "id_entrega")
        okVenda(r) == r.id_venda \in vendas_ids
        d2 == Filter(d1, okVenda)
        dts(r) == [r EXCEPT !.data_envio = to_datetime(r.data_envio),
                            !.data_entrega_prevista = to_datetime(r.data_entrega_prevista),
                            !.data_entrega_real = to_datetime(r.data_entrega_real)]
    IN MapRows(d2, dts)

(***************************************************************************)
(* correcao_automatica.py: the correction functions.                       *)
(***************************************************************************)
\* The natural key passed to processar_dataset for each dataset.
Chave(nome) ==
    CASE nome = "clientes" -> "id_cliente"
      [] nome = "clientes_lab" -> "id_cliente"
      [] nome = "produtos" -> "id_produto"
      [] nome = "vendas" -> "id_venda"
      [] nome = "logistica" -> "id_entrega"

\* Every column whose name contains "data" is parsed, every "telefone"
\* column is reduced to digits and padded, every "email" column is
\* lower-cased and stripped.
padronizar_dados(df, tipo) ==
    LET cli(r) == [r EXCEPT !.data_nascimento = to_datetime(r.data_nascimento),
                            !.data_cadastro = to_datetime(r.data_cadastro),
                            !.telefone = padronizar_telefone(r.telefone),
                            !.email = padronizar_email(r.email)]
        lab(r) == [r EXCEPT !.data_cadastro = to_datetime(r.data_cadastro),
                            !.email = padronizar_email(r.email)]
        prod(r) == [r EXCEPT !.data_criacao = to_datetime(r.data_criacao)]
        ven(r) == [r EXCEPT !.data_venda = to_datetime(r.data_venda)]
        log(r) == [r EXCEPT !.data_envio = to_datetime(r.data_envio),
                            !.data_entrega_prevista = to_datetime(r.data_entrega_prevista),
                            !.data_entrega_real = to_datetime(r.data_entrega_real)]
    IN CASE tipo = "clientes" -> MapRows(df, cli)
         [] tipo = "clientes_lab" -> MapRows(df, lab)
         [] tipo = "produtos" -> MapRows(df, prod)
         [] tipo = "vendas" -> MapRows(df, ven)
         [] tipo = "logistica" -> MapRows(df, log)

\* The tables remover_duplicatas can return: one per tie order of the sort.
remover_duplicatas(df, chave) ==
    {drop_duplicates_last(s, chave) : s \in sort_values(df, chave)}

preencher_campos_vazios(df, tipo) ==
    LET cli(r) == [r EXCEPT !.estado = fillna(r.estado, "SP"),
                            !.cidade = fillna(r.cidade, "São Paulo"),
                            !.nome = fillna(r.nome, "Desconhecido")]
        prod(r) == [r EXCEPT !.categoria = fillna(r.categoria, "Outros"),
                             !.ativo = fillna(r.ativo, "True")]
        ven(r) == [r EXCEPT !.status = fillna(r.status, "Pendente")]
        log(r) == [r EXCEPT !.status_entrega = fillna(r.status_entrega, "Em trânsito")]
    IN CASE tipo = "clientes" -> MapRows(df, cli)
         [] tipo = "produtos" -> MapRows(df, prod)
         [] tipo = "vendas" -> MapRows(df, ven)
         [] tipo = "logistica" -> MapRows(df, log)
         [] OTHER -> df

\* A variant that accepts a sale as soon as one of its two keys is valid.
validar_relacionamentos_ou(vendas, clientes, produtos) ==
    LET ok(r) == \/ r.id_cliente \in ColSet(clientes, "id_cliente")
                 \/ r.id_produto \in ColSet(produtos, "id_produto")
    IN Filter(vendas, ok)

validar_relacionamentos(vendas, clientes, produtos) ==
    LET ok(r) == /\ r.id_cliente \in ColSet(clientes, "id_cliente")
                 /\ r.id_produto \in ColSet(produtos, "id_produto")
    IN Filter(vendas, ok)

\* logistica["data_entrega_real"] < logistica["data_envio"]: a comparison
\* with NaT is False.
entrega_antes_envio(r) ==
    /\ r.data_entrega_real.k = "ts"
    /\ r.data_envio.k = "ts"
    /\ r.data_entrega_real.d < r.data_envio.d

\* A variant that repairs nothing.
corrigir_nada(vendas, logistica) == <<vendas, logistica>>

\* A variant that drops the inconsistent rows instead of repairing them.
corrigir_descartando(vendas, logistica) ==
    LET ok(r) == ~entrega_antes_envio(r)
    IN <<vendas, Filter(logistica, ok)>>

corrigir_inconsistencias(vendas, logistica) ==
    LET fix(r) == IF entrega_antes_envio(r)
                  THEN [r EXCEPT !.data_entrega_real = NaT] ELSE r
    IN <<vendas, MapRows(logistica, fix)>>

(***************************************************************************)
(* Input rows.  Each constructor fixes the columns of one CSV schema; the  *)
(* sets below are the rows the input files are drawn from.                 *)
(***************************************************************************)
Cliente(id, nome, email, tel, nasc) ==
    [id_cliente |-> id, nome |-> nome, email |-> email, telefone |-> tel,
     data_nascimento |-> nasc, data_cadastro |-> Txt(2),
     cidade |-> "São Paulo", estado |-> NULL]

ClienteLab(id, email, idade, status) ==
    [id_cliente |-> id, nome |-> "José", email |-> email, idade |-> idade,
     status |-> status, data_cadastro |-> Txt(1)]

Produto(id, cat, preco, estoque, ativo) ==
    [id_produto |-> id, nome_produto |-> "Smart TV", categoria |-> cat,
     preco |-> preco, estoque |-> estoque, data_criacao |-> Txt(1), ativo |-> ativo]

Venda(id, cli, prod, qtd, unit, data) ==
    [id_venda |-> id, id_cliente |-> cli, id_produto |-> prod, quantidade |-> qtd,
     valor_unitario |-> unit, valor_total |-> qtd * unit, data_venda |-> data,
     status |-> NULL]

Entrega(id, venda, envio, real) ==
    [id_entrega |-> id, id_venda |-> venda, data_envio |-> envio,
     data_entrega_prevista |-> Txt(3), data_entrega_real |-> real,
     status_entrega |-> NULL]

RowsClientes ==
    {Cliente(1, "José", " A@B.co ", "(11)99999-0000", Txt(1)),
     Cliente(1, NULL, "x@y.com", NULL, Txt(1)),
     Cliente(2, "Jose", "sem.arroba", "1234", Txt(1))}

RowsClientesLab ==
    {ClienteLab(1, "a@b.co", 30, "ativo")}

RowsProdutos ==
    {Produto(1, "Eletrônicos", 10, 5, "True"),
     Produto(2, NULL, -5, 5, NULL),
     Produto(2, "Outros", 0, -1, "False")}

RowsVendas ==
    {Venda(1, 1, 1, 1, 10, Txt(1)),
     Venda(2, 2, 1, 1, 10, Txt(2)),
     Venda(2, 1, 1, 0, 10, Txt(1)),
     Venda(1, 1, 1, 1, -10, Txt(1))}

RowsLogistica ==
    {Entrega(1, 1, Txt(2), Txt(1)),
     Entrega(2, 2, Txt(1), Txt(2)),
     Entrega(1, 2, Txt(1), Lixo)}

(***************************************************************************)
(* State.                                                                  *)
(***************************************************************************)
VARIABLES
    stage,    \* which script runs: "ingestao" or "correcao"
    pc,       \* position in the script: [op, i]
    present,  \* the files that exist in the input directory
    src,      \* the content of the input files
    mem,      \* the DataFrame bound to each entity's variable
    loaded,   \* the entities whose variable is bound
    out,      \* the content of the output files
    written,  \* the output files written by this run
    log,      \* the log records emitted, in order
    trace,    \* the pipeline steps completed, in order
    env,      \* dashboard: the optional modules and which of their calls fail
    dash      \* dashboard: the locals of main()

vars == <<stage, pc, present, src, mem, loaded, out, written, log, trace, env, dash>>

\* The environment and locals of the dashboard while another script runs.
NoEnv == [ge |-> FALSE, setup_falha |-> FALSE, validacao_falha |-> FALSE,
          docs_falha |-> FALSE, render_falha |-> FALSE, weasyprint |-> FALSE,
          weasyprint_falha |-> FALSE, pdfkit |-> FALSE, pdfkit_falha |-> FALSE]

NoDash == [context |-> FALSE, docs |-> FALSE, html |-> FALSE, tried |-> <<>>,
           pdf |-> "", exported |-> FALSE]

Empty == [e \in Entities |-> <<>>]

Rec(level, msg, n) == [level |-> level, msg |-> msg, n |-> n]

At(op, i) == [op |-> op, i |-> i]

\* Order of the statements of the ingestion script and of main().
IngOrder == <<"clientes", "clientes_lab", "produtos", "vendas", "logistica">>
CorOrder == <<"clientes", "produtos", "vendas", "logistica", "clientes_lab">>

\* The input files hold at most MaxTotalRows rows in total.
Lens == {l \in [Entities -> 0..MaxTotalRows] :
            l["clientes"] + l["clientes_lab"] + l["produtos"] + l["vendas"]
              + l["logistica"] <= MaxTotalRows}

Inputs ==
    UNION {[clientes : [1..l["clientes"] -> RowsClientes],
            clientes_lab : [1..l["clientes_lab"] -> RowsClientesLab],
            produtos : [1..l["produtos"] -> RowsProdutos],
            vendas : [1..l["vendas"] -> RowsVendas],
            logistica : [1..l["logistica"] -> RowsLogistica]] : l \in Lens}

\* Every input file exists, or exactly one is missing.
Presences == {Entities} \cup {Entities \ {e} : e \in Entities}

Init ==
    /\ stage \in {"ingestao", "correcao"}
    /\ pc = At(IF stage = "ingestao" THEN "read" ELSE "processar", 1)
    /\ present \in Presences
    /\ \E inp \in Inputs :
         src = [e \in Entities |-> IF e \in present THEN inp[e] ELSE <<>>]
    /\ mem = Empty
    /\ loaded = {}
    /\ out = Empty
    /\ written = {}
    /\ log = IF stage = "correcao"
             THEN <<Rec("INFO", "Iniciando correcao automatica", 0)>> ELSE <<>>
    /\ trace = <<>>
    /\ env = NoEnv
    /\ dash = NoDash

(***************************************************************************)
(* pipeline_ingestao.py, the try block of the module.                      *)
(***************************************************************************)
\* pd.read_csv(DATASET_DIR / "<e>.csv"): a missing file raises, the except
\* clause logs the error and re-raises.
IngRead ==
    /\ stage = "ingestao" /\ pc.op = "read"
    /\ LET e == IngOrder[pc.i] IN
         IF e \in present
         THEN /\ mem' = [mem EXCEPT ![e] = src[e]]
              /\ loaded' = loaded \cup {e}
              /\ pc' = IF pc.i < Len(IngOrder) THEN At("read", pc.i + 1) ELSE At("clean", 1)
              /\ log' = log
              /\ trace' = Append(trace, <<"read", e>>)
         ELSE /\ log' = Append(log, Rec("ERROR", "Erro no pipeline de ingestao", 0))
              /\ pc' = At("raised", 0)
              /\ UNCHANGED <<mem, loaded, trace>>
    /\ UNCHANGED <<env, dash, stage, present, src, out, written>>

\* clientes = clean_clientes(clientes) ... logistica = clean_logistica(...)
Clean(e, m) ==
    CASE e = "clientes" -> clean_clientes(m[e])
      [] e = "clientes_lab" -> clean_clientes_lab(m[e])
      [] e = "produtos" -> clean_produtos(m[e])
      [] e = "vendas" -> clean_vendas(m[e], ColSet(m["clientes"], "id_cliente"),
                                      ColSet(m["produtos"], "id_produto"))
      [] e = "logistica" -> clean_logistica(m[e], ColSet(m["vendas"], "id_venda"))

IngClean ==
    /\ stage = "ingestao" /\ pc.op = "clean"
    /\ LET e == IngOrder[pc.i]
           df == Clean(e, mem)
       IN /\ mem' = [mem EXCEPT ![e] = df]
          /\ log' = Append(log, Rec("INFO", "registros finais", Len(df)))
          /\ trace' = trace \o (IF e \in {"vendas", "logistica"}
                                 THEN <<<<"fk", e>>>> ELSE <<>>)
                             \o <<<<"clean", e>>>>
    /\ pc' = IF pc.i < Len(IngOrder) THEN At("clean", pc.i + 1) ELSE At("write", 1)
    /\ UNCHANGED <<env, dash, stage, present, src, loaded, out, written>>

\* <e>.to_csv(OUTPUT_DIR / "<e>.csv", index=False)
IngWrite ==
    /\ stage = "ingestao" /\ pc.op = "write"
    /\ LET e == IngOrder[pc.i] IN
         /\ out' = [out EXCEPT ![e] = mem[e]]
         /\ written' = written \cup {e}
         /\ trace' = Append(trace, <<"write", e>>)
    /\ pc' = IF pc.i < Len(IngOrder) THEN At("write", pc.i + 1) ELSE At("sucesso", 0)
    /\ UNCHANGED <<env, dash, stage, present, src, mem, loaded, log>>

\* logging.info("Pipeline de ingestão finalizado com sucesso.")
IngSucesso ==
    /\ stage = "ingestao" /\ pc.op = "sucesso"
    /\ log' = Append(log, Rec("INFO", "finalizado com sucesso", 0))
    /\ pc' = At("done", 0)
    /\ UNCHANGED <<env, dash, stage, present, src, mem, loaded, out, written, trace>>

(***************************************************************************)
(* correcao_automatica.py, main().                                         *)
(***************************************************************************)
\* <e> = processar_dataset("<e>", chave): read, standardise, deduplicate,
\* fill, write and log.  A missing file raises out of main, which has no
\* handler.
ProcessarDataset ==
    /\ stage = "correcao" /\ pc.op = "processar"
    /\ LET nome == CorOrder[pc.i] IN
         IF nome \in present
         THEN \E d2 \in remover_duplicatas(padronizar_dados(src[nome], nome), Chave(nome)) :
                LET d1 == padronizar_dados(src[nome], nome)
                    df == preencher_campos_vazios(d2, nome)
                IN /\ mem' = [mem EXCEPT ![nome] = df]
                   /\ loaded' = loaded \cup {nome}
                   /\ out' = [out EXCEPT ![nome] = df]
                   /\ written' = written \cup {nome}
                   /\ log' = log \o <<Rec("INFO", "Removidas duplicatas", Len(d1) - Len(d2)),
                                      Rec("INFO", "Dataset processado e salvo", 0)>>
                   /\ trace' = trace \o <<<<"clean", nome>>, <<"write", nome>>>>
                   /\ pc' = IF pc.i < Len(CorOrder)
                            THEN At("processar", pc.i + 1) ELSE At("validar", 0)
         ELSE /\ pc' = At("raised", 0)
              /\ UNCHANGED <<mem, loaded, out, written, log, trace>>
    /\ UNCHANGED <<env, dash, stage, present, src>>

\* vendas = validar_relacionamentos(vendas, clientes, produtos)
ValidarRelacionamentos ==
    /\ stage = "correcao" /\ pc.op = "validar"
    /\ LET v == validar_relacionamentos(mem["vendas"], mem["clientes"], mem["produtos"]) IN
         /\ mem' = [mem EXCEPT !["vendas"] = v]
         /\ log' = Append(log, Rec("INFO", "Removidas vendas com FK invalida",
                                   Len(mem["vendas"]) - Len(v)))
    /\ trace' = Append(trace, <<"fk", "vendas">>)
    /\ pc' = At("corrigir", 0)
    /\ UNCHANGED <<env, dash, stage, present, src, loaded, out, written>>

\* vendas, logistica = corrigir_inconsistencias(vendas, logistica)
CorrigirInconsistencias ==
    /\ stage = "correcao" /\ pc.op = "corrigir"
    /\ LET res == corrigir_inconsistencias(mem["vendas"], mem["logistica"])
           n == Cardinality({i \in 1..Len(mem["logistica"]) :
                                entrega_antes_envio(mem["logistica"][i])})
       IN /\ mem' = [mem EXCEPT !["vendas"] = res[1], !["logistica"] = res[2]]
          /\ log' = Append(log, Rec("INFO", "Corrigidas inconsistencias de datas", n))
    /\ trace' = Append(trace, <<"repair", "logistica">>)
    /\ pc' = At("write", 1)
    /\ UNCHANGED <<env, dash, stage, present, src, loaded, out, written>>

\* vendas.to_csv(...); logistica.to_csv(...)
CorWriteOrder == <<"vendas", "logistica">>

\* A variant of the final writes that leaves the files as they are.
CorWriteSemEscrita ==
    /\ stage = "correcao" /\ pc.op = "write"
    /\ LET e == CorWriteOrder[pc.i] IN
         /\ out' = out
         /\ written' = written \cup {e}
         /\ trace' = Append(trace, <<"write", e>>)
    /\ pc' = IF pc.i < Len(CorWriteOrder) THEN At("write", pc.i + 1) ELSE At("sucesso", 0)
    /\ UNCHANGED <<env, dash, stage, present, src, mem, loaded, log>>

CorWrite ==
    /\ stage = "correcao" /\ pc.op = "write"
    /\ LET e == CorWriteOrder[pc.i] IN
         /\ out' = [out EXCEPT ![e] = mem[e]]
         /\ written' = written \cup {e}
         /\ trace' = Append(trace, <<"write", e>>)
    /\ pc' = IF pc.i < Len(CorWriteOrder) THEN At("write", pc.i + 1) ELSE At("sucesso", 0)
    /\ UNCHANGED <<env, dash, stage, present, src, mem, loaded, log>>

\* logging.info("Correção concluída com sucesso.")
CorSucesso ==
    /\ stage = "correcao" /\ pc.op = "sucesso"
    /\ log' = Append(log, Rec("INFO", "concluida com sucesso", 0))
    /\ pc' = At("done", 0)
    /\ UNCHANGED <<env, dash, stage, present, src, mem, loaded, out, written, trace>>

Next ==
    \/ IngRead
    \/ IngClean
    \/ IngWrite
    \/ IngSucesso
    \/ ProcessarDataset
    \/ ValidarRelacionamentos
    \/ CorrigirInconsistencias
    \/ CorWrite
    \/ CorSucesso

Spec == Init /\ [][Next]_vars

(***************************************************************************)
(* The normalizers applied repeatedly to one table.  `present` holds the   *)
(* entity under test, pc.i counts the passes; the parent tables of vendas  *)
(* and logistica are fixed, already cleaned, tables.                       *)
(***************************************************************************)
MaxNormRows == 2

NormRows(e) ==
    CASE e = "clientes" ->
           {Cliente(id, nome, email, tel, nasc) :
              id \in {1, 2}, nome \in {"José", NULL},
              email \in {" A@B.co ", "sem.arroba", NULL},
              tel \in {"(11)99999-0000", NULL}, nasc \in {Txt(1), Lixo}}
      [] e = "clientes_lab" ->
           {ClienteLab(id, email, idade, status) :
              id \in {1, 2}, email \in {" A@B.co ", NULL},
              idade \in {-1, 30, 120}, status \in {"ativo", NULL}}
      [] e = "produtos" ->
           {Produto(id, cat, preco, estoque, ativo) :
              id \in {1, 2}, cat \in {"Eletrônicos", NULL}, preco \in {-5, 10},
              estoque \in {-1, 0}, ativo \in {"False", NULL}}
      [] e = "vendas" ->
           {Venda(id, cli, 1, qtd, unit, data) :
              id \in {1, 2}, cli \in {1, 2}, qtd \in {0, 1}, unit \in {-10, 10},
              data \in {Txt(1), Lixo}}
      [] e = "logistica" ->
           {Entrega(id, venda, envio, real) :
              id \in {1, 2}, venda \in {1, 2}, envio \in {Txt(2), Lixo},
              real \in {Txt(1), Txt(3), NaD}}

NormParents ==
    [Empty EXCEPT
       !["clientes"] = clean_clientes(<<Cliente(1, "José", "a@b.co", "1234", Txt(1))>>),
       !["produtos"] = clean_produtos(<<Produto(1, "Outros", 10, 5, "True")>>),
       !["vendas"] = clean_vendas(<<Venda(1, 1, 1, 1, 10, Txt(1))>>, {1}, {1})]

NormInit ==
    /\ stage \in {"ingestao", "correcao"}
    /\ pc = At("norm", 0)
    /\ \E e \in Entities :
         /\ present = {e}
         /\ \E n \in 0..MaxNormRows : \E t \in [1..n -> NormRows(e)] :
              /\ src = [Empty EXCEPT ![e] = t]
              /\ mem = [NormParents EXCEPT ![e] = t]
    /\ loaded = {}
    /\ out = Empty
    /\ written = {}
    /\ log = <<>>
    /\ trace = <<>>
    /\ env = NoEnv
    /\ dash = NoDash

\* One more pass of the entity's normalizer over the table it produced.
NormAplicar ==
    /\ pc.op = "norm" /\ pc.i < MaxPasses
    /\ \E e \in present :
         IF stage = "ingestao"
         THEN mem' = [mem EXCEPT ![e] = Clean(e, mem)]
         ELSE \E d2 \in remover_duplicatas(padronizar_dados(mem[e], e), Chave(e)) :
                mem' = [mem EXCEPT ![e] = preencher_campos_vazios(d2, e)]
    /\ pc' = At("norm", pc.i + 1)
    /\ UNCHANGED <<env, dash, stage, present, src, loaded, out, written, log, trace>>

NormNext == NormAplicar

SpecNorm == NormInit /\ [][NormNext]_vars

(***************************************************************************)
(* dashboard_qualidade.py.  env says which optional modules import         *)
(* (_HAS_GREAT_EXPECTATIONS, _HAS_WEASYPRINT, _HAS_PDFKIT) and which calls *)
(* raise when made.                                                        *)
(***************************************************************************)
\* A variant that gives up when weasyprint fails instead of trying pdfkit.
export_sem_fallback(has_w, w_falha, has_p, p_falha) ==
    IF has_w
    THEN IF w_falha
         THEN [ret |-> FALSE, raises |-> FALSE, tried |-> <<"weasyprint">>, pdf |-> "",
               logs |-> <<Rec("ERROR", "weasyprint erro", 0)>>]
         ELSE [ret |-> TRUE, raises |-> FALSE, tried |-> <<"weasyprint">>,
               pdf |-> "weasyprint",
               logs |-> <<Rec("INFO", "Exportado PDF via weasyprint", 0)>>]
    ELSE IF has_p /\ ~p_falha
         THEN [ret |-> TRUE, raises |-> FALSE, tried |-> <<"pdfkit">>, pdf |-> "pdfkit",
               logs |-> <<Rec("INFO", "Exportado PDF via pdfkit", 0)>>]
         ELSE [ret |-> FALSE, raises |-> FALSE,
               tried |-> IF has_p THEN <<"pdfkit">> ELSE <<>>, pdf |-> "",
               logs |-> <<Rec("WARNING", "Nenhuma biblioteca de conversao para PDF", 0)>>]

\* export_html_to_pdf: what it returns, whether it raises, the backends it
\* called in order, the backend that wrote the PDF and the records it logs.
export_html_to_pdf(has_w, w_falha, has_p, p_falha) ==
    LET w_tried == IF has_w THEN <<"weasyprint">> ELSE <<>>
        w_logs == IF has_w THEN <<Rec("ERROR", "weasyprint erro", 0)>> ELSE <<>>
        p_tried == IF has_p THEN <<"pdfkit">> ELSE <<>>
        p_logs == IF has_p THEN <<Rec("ERROR", "pdfkit erro", 0)>> ELSE <<>>
    IN IF has_w /\ ~w_falha
       THEN [ret |-> TRUE, raises |-> FALSE, tried |-> <<"weasyprint">>,
             pdf |-> "weasyprint",
             logs |-> <<Rec("INFO", "Exportado PDF via weasyprint", 0)>>]
       ELSE IF has_p /\ ~p_falha
       THEN [ret |-> TRUE, raises |-> FALSE, tried |-> w_tried \o <<"pdfkit">>,
             pdf |-> "pdfkit",
             logs |-> w_logs \o <<Rec("INFO", "Exportado PDF via pdfkit", 0)>>]
       ELSE [ret |-> FALSE, raises |-> FALSE, tried |-> w_tried \o p_tried, pdf |-> "",
             logs |-> w_logs \o p_logs
                      \o <<Rec("WARNING", "Nenhuma biblioteca de conversao para PDF", 0)>>]

Envs ==
    [ge : BOOLEAN, setup_falha : BOOLEAN, validacao_falha : BOOLEAN,
     docs_falha : BOOLEAN, render_falha : BOOLEAN, weasyprint : BOOLEAN,
     weasyprint_falha : BOOLEAN, pdfkit : BOOLEAN, pdfkit_falha : BOOLEAN]

DashInit ==
    /\ stage = "dashboard"
    /\ pc = At("setup", 0)
    /\ env \in Envs
    /\ dash = NoDash
    /\ present = {}
    /\ src = Empty
    /\ mem = Empty
    /\ loaded = {}
    /\ out = Empty
    /\ written = {}
    /\ log = <<Rec("INFO", "Iniciando dashboard_qualidade.py", 0)>>
    /\ trace = <<>>

DashFrame == UNCHANGED <<stage, env, present, src, mem, loaded, out, written>>

\* context = setup_great_expectations_context(): None when Great
\* Expectations is not installed or when the set-up raises.
DashSetup ==
    /\ stage = "dashboard" /\ pc.op = "setup"
    /\ IF ~env.ge
       THEN /\ log' = Append(log, Rec("WARNING", "Great Expectations nao esta instalado", 0))
            /\ dash' = dash
       ELSE IF env.setup_falha
       THEN /\ log' = Append(log, Rec("ERROR", "Erro ao configurar Data Context", 0))
            /\ dash' = dash
       ELSE /\ log' = Append(log, Rec("INFO", "Data Context", 0))
            /\ dash' = [dash EXCEPT !.context = TRUE]
    /\ trace' = Append(trace, <<"dash", "setup">>)
    /\ pc' = At("validar", 0)
    /\ DashFrame

\* validation_results = run_validations_for_all_suites(context), inside
\* try/except, when there is a context.
DashValidar ==
    /\ stage = "dashboard" /\ pc.op = "validar"
    /\ log' = IF dash.context /\ env.validacao_falha
              THEN Append(log, Rec("ERROR", "Erro ao executar validacoes", 0))
              ELSE log
    /\ trace' = Append(trace, <<"dash", "validar">>)
    /\ pc' = At("docs", 0)
    /\ UNCHANGED dash
    /\ DashFrame

\* ge_docs_urls = build_great_expectations_datadocs(context), inside
\* try/except, when there is a context.
DashDocs ==
    /\ stage = "dashboard" /\ pc.op = "docs"
    /\ IF ~dash.context
       THEN UNCHANGED <<log, dash>>
       ELSE IF env.docs_falha
       THEN /\ log' = Append(log, Rec("ERROR", "Erro ao construir Data Docs", 0))
            /\ dash' = dash
       ELSE /\ log' = Append(log, Rec("INFO", "Data Docs gerados", 0))
            /\ dash' = [dash EXCEPT !.docs = TRUE]
    /\ trace' = Append(trace, <<"dash", "docs">>)
    /\ pc' = At("render", 0)
    /\ DashFrame

\* metrics = compute_dataset_metrics(); html_report = render_executive_html(...):
\* writing the report is not guarded, a failure raises out of main.
DashRender ==
    /\ stage = "dashboard" /\ pc.op = "render"
    /\ IF env.render_falha
       THEN /\ pc' = At("raised", 0)
            /\ UNCHANGED <<log, dash, trace>>
       ELSE /\ log' = Append(log, Rec("INFO", "Relatorio executivo HTML gerado", 0))
            /\ dash' = [dash EXCEPT !.html = TRUE]
            /\ trace' = Append(trace, <<"dash", "render">>)
            /\ pc' = At("export", 0)
    /\ DashFrame

\* exported = export_html_to_pdf(html_report, pdf_report) and the record
\* logged for its result.
DashExport ==
    /\ stage = "dashboard" /\ pc.op = "export"
    /\ LET res == export_html_to_pdf(env.weasyprint, env.weasyprint_falha,
                                     env.pdfkit, env.pdfkit_falha)
       IN IF res.raises
          THEN /\ pc' = At("raised", 0)
               /\ log' = log \o res.logs
               /\ dash' = [dash EXCEPT !.tried = res.tried]
          ELSE /\ pc' = At("fim", 0)
               /\ log' = log \o res.logs
                           \o <<IF res.ret
                                THEN Rec("INFO", "Relatorio executivo PDF disponivel", 0)
                                ELSE Rec("INFO", "Relatorio PDF nao gerado", 0)>>
               /\ dash' = [dash EXCEPT !.tried = res.tried, !.pdf = res.pdf,
                                       !.exported = res.ret]
    /\ trace' = Append(trace, <<"dash", "export">>)
    /\ DashFrame

\* logging.info("dashboard_qualidade finalizado. ...")
DashFim ==
    /\ stage = "dashboard" /\ pc.op = "fim"
    /\ log' = Append(log, Rec("INFO", "dashboard_qualidade finalizado", 0))
    /\ pc' = At("done", 0)
    /\ UNCHANGED <<dash, trace>>
    /\ DashFrame

DashNext ==
    \/ DashSetup
    \/ DashValidar
    \/ DashDocs
    \/ DashRender
    \/ DashExport
    \/ DashFim

SpecDash == DashInit /\ [][DashNext]_vars

(***************************************************************************)
(* Properties.                                                             *)
(***************************************************************************)
Idx(t) == 1..Len(t)

HasDuplicateKey(t, col) ==
    \E i, j \in Idx(t) : i # j /\ Col(t[i], col) = Col(t[j], col)

\* C1: after a complete run of either stage every Sale row written has its
\* customer id in the written Customer table and its product id in the
\* written Product table, and every Logistics row written has its sale id
\* in the written Sale table.
C1_ReferentialClosure ==
    pc.op = "done" =>
      /\ \A i \in Idx(out["vendas"]) :
           /\ \E j \in Idx(out["clientes"]) :
                out["clientes"][j].id_cliente = out["vendas"][i].id_cliente
           /\ \E j \in Idx(out["produtos"]) :
                out["produtos"][j].id_produto = out["vendas"][i].id_produto
      /\ \A i \in Idx(out["logistica"]) :
           \E j \in Idx(out["vendas"]) :
             out["vendas"][j].id_venda = out["logistica"][i].id_venda

\* C2: a run that terminated on a missing input file has written no output
\* file of any entity.
C2_NoPartialOutput ==
    pc.op = "raised" => written = {}

\* C3: no two rows of a written table share the entity's natural key.
C3_KeyUniqueness ==
    \A e \in written : ~HasDuplicateKey(out[e], Chave(e))

C3_Witness ==
    /\ pc.op = "done"
    /\ \E e \in written : HasDuplicateKey(src[e], Chave(e)) /\ Len(out[e]) >= 1

\* C4: of the Customer rows sharing a key, the correction pass retains the
\* one that appears latest in the source order of the input table.
C4_KeepLast ==
    (stage = "correcao" /\ "clientes" \in written) =>
      \A i \in Idx(out["clientes"]) :
        LET t == src["clientes"]
            k == out["clientes"][i].id_cliente
            last == CHOOSE j \in Idx(t) :
                      /\ t[j].id_cliente = k
                      /\ \A h \in (j + 1)..Len(t) : t[h].id_cliente # k
        IN out["clientes"][i] =
             preencher_campos_vazios(padronizar_dados(<<t[last]>>, "clientes"),
                                     "clientes")[1]

\* A delivery row whose actual delivery date is null or not earlier than
\* its ship date.
EntregaCoerente(r) ==
    \/ r.data_entrega_real.k # "ts"
    \/ r.data_envio.k # "ts"
    \/ r.data_entrega_real.d >= r.data_envio.d

\* C5 as stated: the Logistics table written by a complete run of either
\* stage holds no actual delivery date earlier than the ship date.
C5_TemporalBothStages ==
    pc.op = "done" => \A i \in Idx(out["logistica"]) : EntregaCoerente(out["logistica"][i])

\* C5 as amended: the Logistics table written by a complete correction run
\* holds no actual delivery date earlier than the ship date.
C5_TemporalCorrecao ==
    (stage = "correcao" /\ pc.op \in {"sucesso", "done"}) =>
      \A i \in Idx(out["logistica"]) : EntregaCoerente(out["logistica"][i])

C5_Witness ==
    /\ stage = "correcao" /\ pc.op = "done"
    /\ \E i \in Idx(out["logistica"]) : \E j \in Idx(src["logistica"]) :
         /\ src["logistica"][j].id_entrega = out["logistica"][i].id_entrega
         /\ src["logistica"][j].data_envio = Txt(2)
         /\ src["logistica"][j].data_entrega_real = Txt(1)
         /\ out["logistica"][i].data_envio = Ts(2)
         /\ out["logistica"][i].data_entrega_real = NaT

\* C6: corrigir_inconsistencias returns the Logistics rows it was given, in
\* order; a row whose actual delivery precedes its ship date differs only
\* in data_entrega_real, which is null; every other row and the Sale table
\* are unchanged.
C6_RepairNotDrop ==
    [][(stage = "correcao" /\ pc.op = "corrigir") =>
         /\ mem'["vendas"] = mem["vendas"]
         /\ Len(mem'["logistica"]) = Len(mem["logistica"])
         /\ \A i \in Idx(mem["logistica"]) :
              LET a == mem["logistica"][i]
                  b == mem'["logistica"][i]
              IN IF EntregaCoerente(a)
                 THEN b = a
                 ELSE b = [a EXCEPT !.data_entrega_real = NaT]]_vars

C6_Witness ==
    /\ stage = "correcao" /\ pc.op = "write" /\ pc.i = 1
    /\ Len(mem["logistica"]) = 2
    /\ mem["logistica"][1] # out["logistica"][1]
    /\ mem["logistica"][1].data_envio = Ts(2)
    /\ mem["logistica"][1].data_entrega_real = NaT
    /\ mem["logistica"][2] = out["logistica"][2]
    /\ mem["logistica"][2].data_entrega_real = Ts(2)

\* C7: every Product row written by the ingestion stage has price >= 0 and
\* stock >= 0, every Sale row written has quantity > 0, unit value >= 0 and
\* total value >= 0; an input row violating one of these is not in the
\* output.
C7_NumericDomains ==
    stage = "ingestao" =>
      /\ "produtos" \in written =>
           /\ \A i \in Idx(out["produtos"]) :
                out["produtos"][i].preco >= 0 /\ out["produtos"][i].estoque >= 0
           /\ \A j \in Idx(src["produtos"]) :
                (src["produtos"][j].preco < 0 \/ src["produtos"][j].estoque < 0) =>
                  \A i \in Idx(out["produtos"]) :
                    ~ /\ out["produtos"][i].id_produto = src["produtos"][j].id_produto
                      /\ out["produtos"][i].preco = src["produtos"][j].preco
                      /\ out["produtos"][i].estoque = src["produtos"][j].estoque
      /\ "vendas" \in written =>
           \A i \in Idx(out["vendas"]) :
             /\ out["vendas"][i].quantidade > 0
             /\ out["vendas"][i].valor_unitario >= 0
             /\ out["vendas"][i].valor_total >= 0

C7_Witness ==
    /\ stage = "ingestao" /\ pc.op = "done"
    /\ \E j \in Idx(src["produtos"]) : src["produtos"][j].preco = -5
    /\ Len(out["produtos"]) >= 1
    /\ \E j \in Idx(src["vendas"]) : src["vendas"][j].quantidade = 0
    /\ Len(out["vendas"]) < Len(src["vendas"])

\* C8: a pass of an entity's normalizer over a table that this normalizer
\* produced returns that table.
C8_Idempotence ==
    [][(pc.op = "norm" /\ pc.i >= 1) => mem' = mem]_vars

C8_Witness ==
    /\ pc.op = "norm" /\ pc.i = 2
    /\ \E e \in present :
         /\ Len(src[e]) = 2
         /\ Len(mem[e]) = 1
         /\ mem[e][1] \notin {src[e][1], src[e][2]}

\* C9: validar_relacionamentos retains a Sale row if and only if its
\* customer id is a key of the cleaned Customer table and its product id is
\* a key of the cleaned Product table, and the count it logs is the number
\* of rows it did not retain.
C9_ValidatorAnd ==
    [][(stage = "correcao" /\ pc.op = "validar") =>
         LET before == mem["vendas"]
             after == mem'["vendas"]
             valid(r) ==
               /\ \E j \in Idx(mem["clientes"]) : mem["clientes"][j].id_cliente = r.id_cliente
               /\ \E j \in Idx(mem["produtos"]) : mem["produtos"][j].id_produto = r.id_produto
         IN /\ \A i \in Idx(before) :
                 valid(before[i]) <=> \E j \in Idx(after) : after[j] = before[i]
            /\ \A j \in Idx(after) : \E i \in Idx(before) : after[j] = before[i]
            /\ log'[Len(log')].n =
                 Cardinality({i \in Idx(before) : ~valid(before[i])})
            /\ Len(after) = Len(before) - log'[Len(log')].n]_vars

C9_Witness ==
    /\ stage = "correcao" /\ pc.op = "corrigir"
    /\ log[Len(log)].n = 1
    /\ Len(mem["vendas"]) = 1
    /\ \E i \in Idx(out["vendas"]) :
         /\ \A j \in Idx(mem["clientes"]) :
              mem["clientes"][j].id_cliente # out["vendas"][i].id_cliente
         /\ \E j \in Idx(mem["produtos"]) :
              mem["produtos"][j].id_produto = out["vendas"][i].id_produto

\* C10: Sale is referentially validated only after Customer and Product
\* have been normalized, Logistics is validated against Sale only after
\* Sale has been normalized and validated, and no Logistics table is
\* written before that validation.
Before(a, i) == \E j \in 1..(i - 1) : trace[j] = a

C10_TopologicalOrder ==
    \A i \in Idx(trace) :
      /\ trace[i] = <<"fk", "vendas">> =>
           Before(<<"clean", "clientes">>, i) /\ Before(<<"clean", "produtos">>, i)
      /\ trace[i] = <<"fk", "logistica">> =>
           Before(<<"clean", "vendas">>, i) /\ Before(<<"fk", "vendas">>, i)
      /\ trace[i] = <<"write", "logistica">> => Before(<<"fk", "logistica">>, i)

\* The date cells of a row of entity e.
DateCells(e, r) ==
    CASE e = "clientes" -> {r.data_nascimento, r.data_cadastro}
      [] e = "clientes_lab" -> {r.data_cadastro}
      [] e = "produtos" -> {r.data_criacao}
      [] e = "vendas" -> {r.data_venda}
      [] e = "logistica" -> {r.data_envio, r.data_entrega_prevista, r.data_entrega_real}

\* A row one of whose date cells holds text that is no date.
HasUnparseableDate(e, r) == \E c \in DateCells(e, r) : c.k = "txt" /\ c.d = 0

\* The rows of t whose key is k, as positions.
WithKey(t, col, k) == {j \in Idx(t) : Col(t[j], col) = k}

\* The position of the first row of t whose key is k.
FirstWithKey(t, col, k) ==
    CHOOSE j \in WithKey(t, col, k) : \A h \in WithKey(t, col, k) : j <= h

\* C11: after an ingestion pass no output row comes from an input row with
\* an unparseable date, for every entity; after a correction pass every
\* key of the input is still in the table and no date cell holds text, an
\* unparseable date having become the null marker.
C11_UnparseableDates ==
    (pc.op = "norm" /\ pc.i >= 1) =>
      \A e \in present :
        IF stage = "ingestao"
        THEN \A i \in Idx(mem[e]) :
               ~HasUnparseableDate(e,
                  src[e][FirstWithKey(src[e], Chave(e), Col(mem[e][i], Chave(e)))])
        ELSE /\ \A j \in Idx(src[e]) :
                  \E i \in Idx(mem[e]) :
                    Col(mem[e][i], Chave(e)) = Col(src[e][j], Chave(e))
             /\ \A i \in Idx(mem[e]) :
                  /\ \A c \in DateCells(e, mem[e][i]) : c.k \in {"ts", "nat"}
                  /\ \E j \in WithKey(src[e], Chave(e), Col(mem[e][i], Chave(e))) :
                       HasUnparseableDate(e, src[e][j]) =>
                         NaT \in DateCells(e, mem[e][i])

\* C12: a run that completed has logged its success line last, and a run
\* that terminated on a failure has logged a record at error level.
C12_LoggedOutcome ==
    /\ pc.op = "done" =>
         /\ Len(log) >= 1
         /\ log[Len(log)].level = "INFO"
         /\ log[Len(log)].msg \in {"finalizado com sucesso", "concluida com sucesso"}
    /\ pc.op = "raised" => \E i \in Idx(log) : log[i].level = "ERROR"

\* C13: the dashboard run stops only when writing the HTML report fails,
\* never because validation, Data Docs or the PDF export fails, and a run
\* that did not stop ends with the final log line; export_html_to_pdf does
\* not raise, calls weasyprint first when it is installed, calls pdfkit
\* exactly when it is installed and weasyprint is absent or failed, returns
\* True iff one of the backends succeeded and False when none is installed.
C13_BestEffort ==
    stage = "dashboard" =>
      LET w_ok == env.weasyprint /\ ~env.weasyprint_falha
          p_ok == env.pdfkit /\ ~env.pdfkit_falha
          called(b) == \E i \in Idx(dash.tried) : dash.tried[i] = b
      IN /\ pc.op = "raised" => (env.render_falha /\ ~dash.html)
         /\ pc.op \notin {"done", "raised"} => ENABLED DashNext
         /\ pc.op = "done" => log[Len(log)].msg = "dashboard_qualidade finalizado"
         /\ pc.op \in {"fim", "done"} =>
              /\ dash.exported <=> (w_ok \/ p_ok)
              /\ env.weasyprint => dash.tried[1] = "weasyprint"
              /\ called("weasyprint") <=> env.weasyprint
              /\ called("pdfkit") <=> (env.pdfkit /\ ~w_ok)
              /\ (~env.weasyprint /\ ~env.pdfkit) => ~dash.exported
              /\ dash.pdf = (IF w_ok THEN "weasyprint" ELSE IF p_ok THEN "pdfkit" ELSE "")

C13_Witness ==
    /\ stage = "dashboard" /\ pc.op = "done"
    /\ dash.context /\ env.validacao_falha /\ env.docs_falha
    /\ env.weasyprint /\ env.weasyprint_falha
    /\ dash.tried = <<"weasyprint", "pdfkit">>
    /\ dash.exported

\* C14: every row in the output of clean_clientes comes from an input row
\* whose name and phone were not missing and has an email matching the
\* address pattern; an input row with a missing name or a missing phone is
\* not in the output.
C14_ClienteCompleto ==
    (stage = "ingestao" /\ present = {"clientes"} /\ pc.op = "norm" /\ pc.i = 1) =>
      \A i \in Idx(mem.clientes) :
        LET r == src.clientes[FirstWithKey(src.clientes, "id_cliente",
                                           mem.clientes[i].id_cliente)]
        IN /\ notna(r.nome)
           /\ notna(r.telefone)
           /\ email_ok(mem.clientes[i].email)

\* The filters clean_* applies to an input row r of entity e, the parent
\* tables being those of m.
PassesFilters(e, r, m) ==
    CASE e = "clientes" ->
           /\ email_ok(r.email)
           /\ notna(astype_str(r.nome)) /\ notna(r.telefone)
           /\ date_notna(to_datetime(r.data_nascimento))
           /\ date_notna(to_datetime(r.data_cadastro))
      [] e = "clientes_lab" ->
           /\ email_ok(r.email)
           /\ r.idade >= 0 /\ r.idade < 120
           /\ notna(r.status)
           /\ date_notna(to_datetime(r.data_cadastro))
      [] e = "produtos" ->
           /\ r.preco >= 0 /\ r.estoque >= 0
           /\ date_notna(to_datetime(r.data_criacao))
      [] e = "vendas" ->
           /\ r.id_cliente \in ColSet(m["clientes"], "id_cliente")
           /\ r.id_produto \in ColSet(m["produtos"], "id_produto")
           /\ r.quantidade > 0 /\ r.valor_unitario >= 0 /\ r.valor_total >= 0
           /\ date_notna(to_datetime(r.data_venda))
      [] e = "logistica" ->
           r.id_venda \in ColSet(m["vendas"], "id_venda")

\* C15: after one ingestion pass of clean_*, the output has a row with key
\* k iff the first input row with key k passes every filter of the
\* function, and the output row with key k is the cleaned first row: a
\* later duplicate never takes the place of a first row that fails.
C15_DedupBeforeFilter ==
    (stage = "ingestao" /\ pc.op = "norm" /\ pc.i = 1) =>
      \A e \in present :
        LET key == Chave(e)
            first(k) == src[e][FirstWithKey(src[e], key, k)]
        IN /\ \A i \in Idx(mem[e]) : Col(mem[e][i], key) \in ColSet(src[e], key)
           /\ \A k \in ColSet(src[e], key) :
                (\E i \in Idx(mem[e]) : Col(mem[e][i], key) = k)
                  <=> PassesFilters(e, first(k), mem)
           /\ \A i \in Idx(mem[e]) :
                <<mem[e][i]>> = Clean(e, [mem EXCEPT ![e] = <<first(Col(mem[e][i], key))>>])

C15_Witness ==
    /\ stage = "ingestao" /\ pc.op = "norm" /\ pc.i = 1
    /\ present = {"vendas"}
    /\ Len(src.vendas) = 2
    /\ src.vendas[1].id_venda = src.vendas[2].id_venda
    /\ ~PassesFilters("vendas", src.vendas[1], mem)
    /\ PassesFilters("vendas", src.vendas[2], mem)
    /\ mem.vendas = <<>>

\* The tables processar_dataset can write for dataset e: the input
\* standardised, deduplicated and null-filled, before any validation or repair.
PrimeiraVersao(e) ==
    {preencher_campos_vazios(d2, e) :
       d2 \in remover_duplicatas(padronizar_dados(src[e], e), Chave(e))}

\* The positions of the writes of dataset e in the trace.
Writes(e) == {i \in Idx(trace) : trace[i] = <<"write", e>>}

\* C16: in a correction run vendas and logistica are written by
\* processar_dataset before validation and repair and written again after
\* them; when the run completes the vendas file is the FK-validated table
\* and the logistica file the repaired table; until the second writes, and
\* in a run that aborted before them, the files hold the unvalidated,
\* unrepaired tables.
C16_DoubleWrite ==
    stage = "correcao" =>
      /\ pc.op = "done" =>
           /\ \A e \in {"vendas", "logistica"} :
                /\ Cardinality(Writes(e)) = 2
                /\ \E i, j \in Writes(e) :
                     /\ i < j
                     /\ \E f, r \in Idx(trace) :
                          /\ trace[f] = <<"fk", "vendas">>
                          /\ trace[r] = <<"repair", "logistica">>
                          /\ i < f /\ f < r /\ r < j
           /\ \E v \in PrimeiraVersao("vendas") :
                out.vendas = validar_relacionamentos(v, out.clientes, out.produtos)
           /\ \E l \in PrimeiraVersao("logistica") :
                out.logistica = corrigir_inconsistencias(out.vendas, l)[2]
           /\ \A i \in Idx(out.vendas) :
                /\ out.vendas[i].id_cliente \in ColSet(out.clientes, "id_cliente")
                /\ out.vendas[i].id_produto \in ColSet(out.produtos, "id_produto")
           /\ \A i \in Idx(out.logistica) : EntregaCoerente(out.logistica[i])
      /\ pc.op \in {"processar", "validar", "corrigir", "raised"} =>
           \A e \in {"vendas", "logistica"} \cap written :
             /\ Cardinality(Writes(e)) = 1
             /\ out[e] \in PrimeiraVersao(e)

C16_Witness ==
    /\ stage = "correcao" /\ pc.op = "raised"
    /\ {"vendas", "logistica"} \subseteq written
    /\ \E i \in Idx(out.vendas) :
         out.vendas[i].id_cliente \notin ColSet(out.clientes, "id_cliente")
    /\ \E i \in Idx(out.logistica) : ~EntregaCoerente(out.logistica[i])

====
